---- MODULE Spec2Model ----
(***************************************************************************)
(* Model of desktop/src-tauri/src/custom_protocol.rs: the devpod:// deep   *)
(* link pipeline  UrlParser::parse -> CustomProtocol::parse -> handler ->  *)
(* send_ui_message, and CustomProtocol::setup.                             *)
(*                                                                         *)
(* A string is a sequence of tokens.  A token is either one delimiter      *)
(* character (":", "/", "?", "#", "&", "=", "@", " "), one percent escape  *)
(* ("%20", "%FF") or a word of characters that are none of these.  Two     *)
(* words are never adjacent, so a string has exactly one tokenisation.     *)
(***************************************************************************)
EXTENDS Naturals, Sequences, FiniteSets

(* ------------------------------------------------------------------ *)
(* Bounds                                                              *)
(* ------------------------------------------------------------------ *)

\* Largest number of key=value pairs in a generated query string.
MaxPairs == 4

\* Number of activations the OS delivers in one run.
MaxActivations == 2

(* ------------------------------------------------------------------ *)
(* Strings                                                             *)
(* ------------------------------------------------------------------ *)

Take(s, n) == SubSeq(s, 1, n)

Drop(s, n) == SubSeq(s, n + 1, Len(s))

\* Index of the first token of s that is in D; Len(s) + 1 when there is none.
FirstOf(s, D) ==
  LET I == {i \in 1..Len(s) : s[i] \in D}
  IN  IF I = {} THEN Len(s) + 1 ELSE CHOOSE i \in I : \A j \in I : i <= j

\* Index of the last token of s that is in D; 0 when there is none.
LastOf(s, D) ==
  LET I == {i \in 1..Len(s) : s[i] \in D}
  IN  IF I = {} THEN 0 ELSE CHOOSE i \in I : \A j \in I : j <= i

Tokens(s) == {s[i] : i \in 1..Len(s)}

\* Option<T>
None == [present |-> FALSE, value |-> <<>>]

Some(v) == [present |-> TRUE, value |-> v]

\* Option::unwrap_or
unwrap_or(opt, default) == IF opt.present THEN opt.value ELSE default

\* Result<T, E>
Ok(v) == [ok |-> TRUE, val |-> v]

Err(e) == [ok |-> FALSE, err |-> e]

(* ------------------------------------------------------------------ *)
(* ParseError                                                          *)
(* ------------------------------------------------------------------ *)

UnsupportedHost(s) == [kind |-> "UnsupportedHost", arg |-> s]

InvalidQuery(s) == [kind |-> "InvalidQuery", arg |-> s]

(* ------------------------------------------------------------------ *)
(* url::Url::parse, as far as host_str() and query() show it           *)
(* ------------------------------------------------------------------ *)

\* Schemes whose host is a domain (lower-cased, never empty); every other
\* scheme, devpod among them, has an opaque host that is kept as written.
SpecialSchemes == {"http"}

\* Words that are a scheme when followed by ":" (a letter, then letters,
\* digits, "+", "-", ".").
SchemeWords ==
  {"devpod", "http", "open", "import", "OPEN", "something", "user", "op", "en",
   "p", "frag", "a", "b", "other", "workspace", "provider", "ide", "source",
   "workspace-id", "workspace-uid", "devpod-pro-host",
   "w1", "u1", "h1", "ws", "pr", "vscode", "src", "x"}

\* Words that are a port number.
PortWords == {"80"}

\* Code points an opaque or domain host may not hold (of this alphabet).
ForbiddenHostTokens == {" ", "#", "/", ":", "?", "@", "%FF", "%20"}

Lower(t) == IF t = "OPEN" THEN "open" ELSE t

LowerAll(s) == [i \in 1..Len(s) |-> Lower(s[i])]

\* Leading and trailing C0 control or space is removed before parsing.
RECURSIVE TrimStart(_)
TrimStart(s) == IF s # <<>> /\ s[1] = " " THEN TrimStart(Tail(s)) ELSE s

RECURSIVE TrimEnd(_)
TrimEnd(s) ==
  IF s # <<>> /\ s[Len(s)] = " " THEN TrimEnd(Take(s, Len(s) - 1)) ELSE s

RECURSIVE SkipSlashes(_)
SkipSlashes(s) == IF s # <<>> /\ s[1] = "/" THEN SkipSlashes(Tail(s)) ELSE s

\* The query percent-encode set: of this alphabet, the space.
EncodeQueryToken(t) == IF t = " " THEN "%20" ELSE t

EncodeQuery(s) == [i \in 1..Len(s) |-> EncodeQueryToken(s[i])]

\* The text before the fragment.
BeforeFragment(t) == Take(t, FirstOf(t, {"#"}) - 1)

\* The text before the query.
BeforeQuery(t) == Take(t, FirstOf(t, {"?"}) - 1)

\* Url::query: the text after the first "?", percent-encoded; None without "?".
QueryOf_url(t) ==
  IF FirstOf(t, {"?"}) > Len(t) THEN None
  ELSE Some(EncodeQuery(Drop(t, FirstOf(t, {"?"}))))

\* The host of an authority, once its user info and port are taken off.
parse_host(special, hasUserOrPort, hostToks, query) ==
  IF Tokens(hostToks) \cap ForbiddenHostTokens # {} THEN Err("InvalidDomainCharacter")
  ELSE IF hostToks = <<>>
    THEN IF special \/ hasUserOrPort THEN Err("EmptyHost")
         ELSE Ok([host |-> None, query |-> query])
  ELSE Ok([host  |-> Some(IF special THEN LowerAll(hostToks) ELSE hostToks),
           query |-> query])

\* A port is digits, or nothing.
valid_port(port) == port = <<>> \/ (Len(port) = 1 /\ port[1] \in PortWords)

\* host[:port]
parse_host_and_port(special, hasUser, hostport, query) ==
  IF FirstOf(hostport, {":"}) > Len(hostport)
  THEN parse_host(special, hasUser, hostport, query)
  ELSE IF ~valid_port(Drop(hostport, FirstOf(hostport, {":"})))
    THEN Err("InvalidPort")
  ELSE parse_host(special, TRUE, Take(hostport, FirstOf(hostport, {":"}) - 1), query)

\* [userinfo@]host[:port], up to the path.
parse_authority(special, auth, query) ==
  parse_host_and_port(special, LastOf(auth, {"@"}) > 0,
                      Drop(auth, LastOf(auth, {"@"})), query)

\* What follows "scheme:" and precedes the query: //authority/path for a
\* special scheme whatever its slashes; else //authority/path, /path or a
\* path that is no hierarchy, the last two without a host.
parse_hier(special, hier, query) ==
  IF special
  THEN parse_authority(special, Take(SkipSlashes(hier),
                         FirstOf(SkipSlashes(hier), {"/"}) - 1), query)
  ELSE IF Len(hier) >= 2 /\ hier[1] = "/" /\ hier[2] = "/"
    THEN parse_authority(special, Take(Drop(hier, 2),
                           FirstOf(Drop(hier, 2), {"/"}) - 1), query)
  ELSE Ok([host |-> None, query |-> query])

parse_after_scheme(special, t) == parse_hier(special, BeforeQuery(t), QueryOf_url(t))

parse_with_scheme(s) ==
  IF Len(s) < 2 \/ s[1] \notin SchemeWords \/ s[2] # ":"
  THEN Err("RelativeUrlWithoutBase")
  ELSE parse_after_scheme(Lower(s[1]) \in SpecialSchemes, BeforeFragment(Drop(s, 2)))

\* Url::parse: Err, or Ok of the parts the program reads:
\* host (Url::host_str) and query (Url::query), both Option<&str>.
Url_parse(input) == parse_with_scheme(TrimEnd(TrimStart(input)))

(* ------------------------------------------------------------------ *)
(* UrlParser                                                           *)
(* ------------------------------------------------------------------ *)

\* The allow-list with a method the dispatch has no arm for.
ALLOWED_METHODS_and_something == {<<"open">>, <<"import">>, <<"something">>}

ALLOWED_METHODS == {<<"open">>, <<"import">>}

\* The literal "no host".
NoHost == <<"no", " ", "host">>

get_host(url) == unwrap_or(url.host, NoHost)

\* Result::map_err(|_| err)
map_err(result, err) == IF result.ok THEN result ELSE Err(err)

\* parse_raw_url reporting the failure as UnsupportedHost.
parse_raw_url_as_host(url_scheme) ==
  map_err(Url_parse(url_scheme), UnsupportedHost(url_scheme))

parse_raw_url(url_scheme) == map_err(Url_parse(url_scheme), InvalidQuery(url_scheme))

\* is_allowed_method comparing without regard to case.
is_allowed_method_ignore_case(host_str) ==
  LowerAll(host_str) \in ALLOWED_METHODS

is_allowed_method(host_str) == host_str \in ALLOWED_METHODS

\* parse_query with get_host's default.
parse_query_no_host(url) == unwrap_or(url.query, NoHost)

parse_query(url) == unwrap_or(url.query, <<>>)

\* UrlParser::parse from the result of its first line on: the `?` returns
\* the error, then the allow-list, then the Request.
parse_url(url) ==
  IF ~url.ok THEN Err(url.err)
  ELSE IF ~is_allowed_method(get_host(url.val))
    THEN Err(UnsupportedHost(get_host(url.val)))
  ELSE Ok([host |-> get_host(url.val), query |-> parse_query(url.val)])

\* Result<Request, ParseError>
UrlParser_parse(url_scheme) == parse_url(parse_raw_url(url_scheme))

(* ------------------------------------------------------------------ *)
(* serde_qs::from_str (strict mode, the default)                       *)
(* ------------------------------------------------------------------ *)

\* The segments of s between the separators sep.
RECURSIVE SplitOn(_, _)
SplitOn(s, sep) ==
  LET i == FirstOf(s, {sep})
  IN  IF i > Len(s) THEN <<s>> ELSE <<Take(s, i - 1)>> \o SplitOn(Drop(s, i), sep)

\* Percent-decoding and "+" as space.
FormDecodeToken(t) == IF t \in {"%20", "+"} THEN " " ELSE t

FormDecode(s) == [i \in 1..Len(s) |-> FormDecodeToken(s[i])]

\* "%FF" is the escape of a byte that is no UTF-8 text; strict mode refuses it.
Utf8Ok(s) == "%FF" \notin Tokens(s)

PairKey(seg) == Take(seg, FirstOf(seg, {"="}) - 1)

PairValue(seg) == Drop(seg, FirstOf(seg, {"="}))

DecodedKey(seg) == FormDecode(PairKey(seg))

DecodedValue(seg) == FormDecode(PairValue(seg))

\* The map of the pairs segs, Err when a pair does not decode or a key occurs
\* twice.
qs_map(segs) ==
  IF \E i \in 1..Len(segs) : ~Utf8Ok(segs[i]) THEN Err("Utf8")
  ELSE IF \E i, j \in 1..Len(segs) : i # j /\ DecodedKey(segs[i]) = DecodedKey(segs[j])
    THEN Err("Multiple values for one key")
  ELSE Ok([k \in {DecodedKey(segs[i]) : i \in 1..Len(segs)} |->
             DecodedValue(segs[CHOOSE i \in 1..Len(segs) : DecodedKey(segs[i]) = k])])

\* qs_parse refusing the empty query string.
qs_parse_refuses_empty(input) ==
  IF input = <<>> THEN Err("empty query")
  ELSE qs_map(SelectSeq(SplitOn(input, "&"), LAMBDA seg : seg # <<>>))

\* The top-level map of a query string: its pairs are what "&" separates.
qs_parse(input) == qs_map(SelectSeq(SplitOn(input, "&"), LAMBDA seg : seg # <<>>))

\* Deserializing an Option<String> field of a struct: an absent key and an empty
\* value are None.
qs_option(map, key) ==
  IF key \in DOMAIN map /\ map[key] # <<>> THEN Some(map[key]) ELSE None

(* ------------------------------------------------------------------ *)
(* The command messages and their Deserialize                          *)
(* ------------------------------------------------------------------ *)

\* OpenWorkspaceMsg::empty()
OpenWorkspaceMsg_empty ==
  [workspace_id |-> None, provider_id |-> None, ide |-> None, source |-> None]

\* The fields of OpenWorkspaceMsg from the map of the query, or its error.
OpenWorkspaceMsg_fields(map) ==
  IF ~map.ok THEN Err(map.err)
  ELSE Ok([workspace_id |-> qs_option(map.val, <<"workspace">>),
           provider_id  |-> qs_option(map.val, <<"provider">>),
           ide          |-> qs_option(map.val, <<"ide">>),
           source       |-> qs_option(map.val, <<"source">>)])

\* #[derive(Deserialize)] struct OpenWorkspaceMsg: unknown keys are ignored.
OpenWorkspaceMsg_deserialize(input) == OpenWorkspaceMsg_fields(qs_parse(input))

\* HashMap::get in place of HashMap::remove: the key stays in the map.
remove_keeps(map, key) == map

\* HashMap::remove: the map without the key.
remove(map, key) == [k \in DOMAIN map \ {key} |-> map[k]]

\* The value HashMap::remove returned, the empty string for None.
ValueOrDefault(options, key) == IF key \in DOMAIN options THEN options[key] ELSE <<>>

\* ImportWorkspaceMsg::deserialize with unwrap_or_default() for devpod-pro-host.
ImportWorkspaceMsg_from_default_host(options) ==
  IF ~options.ok THEN Err(options.err)
  ELSE IF <<"workspace-id">> \notin DOMAIN options.val
    THEN Err("missing field workspace-id")
  ELSE IF <<"workspace-uid">> \notin DOMAIN options.val
    THEN Err("missing field workspace-uid")
  ELSE Ok([workspace_id    |-> options.val[<<"workspace-id">>],
           workspace_uid   |-> options.val[<<"workspace-uid">>],
           devpod_pro_host |-> ValueOrDefault(options.val, <<"devpod-pro-host">>),
           options         |-> [k \in DOMAIN options.val \
                                  {<<"workspace-id">>, <<"workspace-uid">>,
                                   <<"devpod-pro-host">>} |-> options.val[k]]])

\* ImportWorkspaceMsg::deserialize from the result of HashMap::deserialize
\* on: its `?`, each options.remove(key).ok_or_else(missing_field)? in turn,
\* then the message with what is left of the map.
ImportWorkspaceMsg_from(options) ==
  IF ~options.ok THEN Err(options.err)
  ELSE IF <<"workspace-id">> \notin DOMAIN options.val
    THEN Err("missing field workspace-id")
  ELSE IF <<"workspace-uid">> \notin DOMAIN options.val
    THEN Err("missing field workspace-uid")
  ELSE IF <<"devpod-pro-host">> \notin DOMAIN options.val
    THEN Err("missing field devpod-pro-host")
  ELSE Ok([workspace_id    |-> options.val[<<"workspace-id">>],
           workspace_uid   |-> options.val[<<"workspace-uid">>],
           devpod_pro_host |-> options.val[<<"devpod-pro-host">>],
           options         |-> remove(remove(remove(options.val, <<"workspace-id">>),
                                             <<"workspace-uid">>),
                                      <<"devpod-pro-host">>)])

\* impl Deserialize for ImportWorkspaceMsg
ImportWorkspaceMsg_deserialize(input) == ImportWorkspaceMsg_from(qs_parse(input))

\* serde_qs::from_str::<Msg>, Msg one of "open" (OpenWorkspaceMsg) and "import"
\* (ImportWorkspaceMsg).
from_str(Msg, input) ==
  IF Msg = "open" THEN OpenWorkspaceMsg_deserialize(input)
  ELSE ImportWorkspaceMsg_deserialize(input)

\* CustomProtocol::parse reporting the request's host.
CustomProtocol_parse_reports_host(Msg, request) ==
  map_err(from_str(Msg, request.query), InvalidQuery(request.host))

\* CustomProtocol::parse::<Msg>
CustomProtocol_parse(Msg, request) ==
  map_err(from_str(Msg, request.query), InvalidQuery(request.query))

(* ------------------------------------------------------------------ *)
(* Raw URLs                                                            *)
(* ------------------------------------------------------------------ *)

Reverse(s) == [i \in 1..Len(s) |-> s[Len(s) + 1 - i]]

RequiredKeys == {"workspace-id", "workspace-uid", "devpod-pro-host"}

OpenKeys == {"workspace", "provider", "ide", "source"}

\* Every key a generated query may hold, in the order it is written.
KeyOrder ==
  <<"workspace-id", "workspace-uid", "devpod-pro-host", "other",
    "workspace", "provider", "ide", "source">>

Keys == Tokens(KeyOrder)

\* The value a key is written with unless it is the query's odd pair.
DefaultValue(k) ==
  CASE k = "workspace-id"    -> "w1"
    [] k = "workspace-uid"   -> "u1"
    [] k = "devpod-pro-host" -> "h1"
    [] k = "other"           -> "x"
    [] k = "workspace"       -> "ws"
    [] k = "provider"        -> "pr"
    [] k = "ide"             -> "vscode"
    [] k = "source"          -> "src"

\* An empty value, a value that is no UTF-8 text, a value with a space.
OddValues == {<<>>, <<"%FF">>, <<"a", " ", "b">>}

\* The value key k is written with in a query whose odd pair is oddKey=oddValue.
WrittenValue(k, oddKey, oddValue) ==
  IF k = oddKey THEN oddValue ELSE <<DefaultValue(k)>>

\* k1=v1&k2=v2&... for the keys ks.
RECURSIVE QueryOf(_, _, _)
QueryOf(ks, oddKey, oddValue) ==
  IF ks = <<>> THEN <<>>
  ELSE LET pair == <<Head(ks), "=">> \o WrittenValue(Head(ks), oddKey, oddValue)
       IN  IF Len(ks) = 1 THEN pair
           ELSE pair \o <<"&">> \o QueryOf(Tail(ks), oddKey, oddValue)

\* The sequences of distinct keys a query is written from.
KeySeqs ==
  LET inOrder == {SelectSeq(KeyOrder, LAMBDA k : k \in S) :
                    S \in {T \in SUBSET Keys : Cardinality(T) <= MaxPairs}}
  IN  inOrder \cup {Reverse(ks) : ks \in inOrder}

\* Query strings of distinct keys, at most one pair with an odd value.
PlainQueries ==
  {QueryOf(ks, "", <<>>) : ks \in KeySeqs}
    \cup {QueryOf(ks[1], ks[2], v) :
            ks \in {kk \in KeySeqs \X Keys : kk[2] \in Tokens(kk[1])}, v \in OddValues}

\* Query strings in which one key occurs twice.
DuplicateQueries ==
  {QueryOf(ks, "", <<>>) \o <<"&", Head(ks), "=", "b">> :
     ks \in {kk \in KeySeqs : Len(kk) \in 1..MaxPairs - 1}}

Queries == PlainQueries \cup DuplicateQueries

\* devpod://open?... and devpod://import?...
CommandUrls ==
  {<<"devpod", ":", "/", "/", h, "?">> \o q : h \in {"open", "import"}, q \in Queries}

\* Strings around the authority: with and without a scheme, "//", a path, a
\* query, a fragment, a trailing space.
Prefixes == {<<"devpod", ":", "/", "/">>, <<"http", ":", "/", "/">>, <<"devpod", ":">>, <<>>}

Authorities ==
  {<<"open">>, <<"import">>, <<"OPEN">>, <<"something">>, <<>>,
   <<"user", "@", "open">>, <<"import", ":", "80">>, <<"open", ":", "x">>,
   <<"op", " ", "en">>}

Paths == {<<>>, <<"/", "p">>}

QueryParts ==
  {<<>>, <<"?">>, <<"?", "workspace", "=", "ws">>, <<"?", "a", " ", "b">>,
   <<"?", "a", "?", "b">>}

Fragments == {<<>>, <<"#", "frag">>, <<"#", "a", "?", "b">>}

Paddings == {<<>>, <<" ">>}

RouterUrls ==
  {pre \o au \o pa \o qp \o fr \o pad :
     pre \in Prefixes, au \in Authorities, pa \in Paths, qp \in QueryParts,
     fr \in Fragments, pad \in Paddings}

\* What an activation, or a caller of UrlParser::parse, may pass.
RawUrls == RouterUrls \cup CommandUrls

(* ------------------------------------------------------------------ *)
(* UiMessage                                                           *)
(* ------------------------------------------------------------------ *)

OpenWorkspace(msg) == [type |-> "OpenWorkspace", payload |-> msg]

ImportWorkspace(msg) == [type |-> "ImportWorkspace", payload |-> msg]

CommandFailed(err) == [type |-> "CommandFailed", payload |-> err]

ShowToast(msg) == [type |-> "ShowToast", payload |-> msg]

\* ShowToastMsg::new(title, message, status)
ShowToastMsg_new(title, message, status) ==
  [title |-> title, message |-> message, status |-> status]

(* ------------------------------------------------------------------ *)
(* State                                                               *)
(* ------------------------------------------------------------------ *)

\* The targets the cfg attributes tell apart, and one that none of them names.
TargetOs == {"linux", "windows", "macos"}

Activations == 1..MaxActivations

\* What the OS delivers: every way an activation can end.
Deliveries ==
  {<<"devpod", ":", "/", "/", "open">>,
   <<"devpod", ":", "/", "/", "open", "?", "workspace", "=", "ws", "&", "other", "=", "x">>,
   <<"devpod", ":", "/", "/", "open", "?", "workspace", "=", "%FF">>,
   <<"devpod", ":", "/", "/", "import">>,
   <<"devpod", ":", "/", "/", "import", "?", "workspace-id", "=", "w1", "&",
     "workspace-uid", "=", "u1", "&", "devpod-pro-host", "=", "h1">>,
   <<"devpod", ":", "/", "/", "import", "?", "workspace-id", "=", "w1", "&",
     "workspace-uid", "=", "u1", "&", "devpod-pro-host", "=", "h1", "&",
     "other", "=", "x">>,
   <<"devpod", ":", "/", "/", "import", "?", "workspace-uid", "=", "u1", "&",
     "devpod-pro-host", "=", "h1", "&", "other", "=", "x">>,
   <<"devpod", ":", "/", "/", "something">>,
   <<"devpod", ":", "open", "?", "workspace", "=", "ws">>,
   <<"invalid-scheme">>}

VARIABLES
  p_raw,            \* the &str given to UrlParser::parse
  p_pc,             \* "start", "failed" (parse returned Err), "routed", "decoded"
  p_request,        \* the Result<Request, ParseError> of UrlParser::parse
  p_type,           \* the Msg type CustomProtocol::parse was called with
  p_msg,            \* the Result<Msg, ParseError> of CustomProtocol::parse
  target_os,        \* the target the program was built for
  setup_pc,         \* CustomProtocol::setup: "start", "toast", "returned"
  register_result,  \* "none", or what tauri_plugin_deep_link::register returned
  receiver_alive,   \* the receiving end of app_state.ui_messages still exists
  ui_messages,      \* the messages sent on app_state.ui_messages, in order
  send_log,         \* every send attempted: who made it, the message, its result
  act               \* per activation: the callback's position and its locals

pvars == <<p_raw, p_pc, p_request, p_type, p_msg>>

svars == <<target_os, setup_pc, register_result, receiver_alive, ui_messages,
           send_log, act>>

vars == <<pvars, svars>>

\* A result that has not been computed.
Pending == [ok |-> FALSE, err |-> "pending"]

\* An activation the OS has not delivered.
Idle == [pc |-> "idle", url |-> <<>>, request |-> Pending, msg |-> None,
         out |-> None]

PInit ==
  /\ p_raw = <<>>
  /\ p_pc = "start"
  /\ p_request = Pending
  /\ p_type = "none"
  /\ p_msg = Pending

SInit ==
  /\ setup_pc = "start"
  /\ register_result = "none"
  /\ receiver_alive = TRUE
  /\ ui_messages = <<>>
  /\ send_log = <<>>
  /\ act = [i \in Activations |-> Idle]

(* ------------------------------------------------------------------ *)
(* UrlParser::parse and CustomProtocol::parse on every input           *)
(* ------------------------------------------------------------------ *)

ParseInit ==
  /\ p_raw \in RawUrls
  /\ p_pc = "start"
  /\ p_request = Pending
  /\ p_type = "none"
  /\ p_msg = Pending
  /\ target_os = "linux"
  /\ SInit

\* let request = UrlParser::parse(&url_str)
ParseUrl ==
  /\ p_pc = "start"
  /\ p_request' = UrlParser_parse(p_raw)
  /\ p_pc' = IF p_request'.ok THEN "routed" ELSE "failed"
  /\ UNCHANGED <<p_raw, p_type, p_msg, svars>>

\* let got: Msg = CustomProtocol::parse(&request)
ParseMsg(Msg) ==
  /\ p_pc = "routed"
  /\ p_type' = Msg
  /\ p_msg' = CustomProtocol_parse(Msg, p_request.val)
  /\ p_pc' = "decoded"
  /\ UNCHANGED <<p_raw, p_request, svars>>

ParseNext == ParseUrl \/ ParseMsg("open") \/ ParseMsg("import")

ParseSpec == ParseInit /\ [][ParseNext]_vars

(* ------------------------------------------------------------------ *)
(* Handlers                                                            *)
(* ------------------------------------------------------------------ *)

\* Each handler is given as the message it goes on to send, None when it
\* sends nothing.

OpenHandler_handle_ok(msg) == Some(OpenWorkspace(msg))

\* OpenHandler::handle_error without its cfg attribute.
OpenHandler_handle_error_everywhere(err) == Some(CommandFailed(err))

\* #[cfg(not(target_os = "windows"))]
OpenHandler_handle_error(err) ==
  IF target_os # "windows" THEN Some(CommandFailed(err)) ELSE None

OpenHandler_handle(msg) ==
  IF msg.ok THEN OpenHandler_handle_ok(msg.val) ELSE OpenHandler_handle_error(msg.err)

\* ImportHandler::handle_ok sending the variant of OpenHandler::handle_ok.
ImportHandler_handle_ok_as_open(msg) == Some(OpenWorkspace(msg))

ImportHandler_handle_ok(msg) == Some(ImportWorkspace(msg))

\* #[cfg(not(target_os = "windows"))]
ImportHandler_handle_error(err) ==
  IF target_os # "windows" THEN Some(CommandFailed(err)) ELSE None

ImportHandler_handle(msg) ==
  IF msg.ok THEN ImportHandler_handle_ok(msg.val)
  ELSE ImportHandler_handle_error(msg.err)

\* if let Err(err) = request { #[cfg(not(target_os = "windows"))] send...; return; }
router_failure(err) ==
  IF target_os # "windows" THEN Some(CommandFailed(err)) ELSE None

\* A callback that hands its send to the runtime and returns at once.
Locals_detached(url_scheme, request, msg, out) ==
  [pc      |-> "returned",
   url     |-> url_scheme,
   request |-> request,
   msg     |-> msg,
   out     |-> out]

\* A callback at its one await, or at its end: the request, the decoded message
\* (None when CustomProtocol::parse was not called) and the UiMessage it goes
\* on to send (None when it sends nothing).
Locals(url_scheme, request, msg, out) ==
  [pc      |-> IF out.present THEN "send" ELSE "returned",
   url     |-> url_scheme,
   request |-> request,
   msg     |-> msg,
   out     |-> out]

\* "open" => { let msg = CustomProtocol::parse(&request); OpenHandler::handle(..) }
open_arm(url_scheme, request, msg) ==
  Locals(url_scheme, request, Some(msg), OpenHandler_handle(msg))

\* "import" => { let msg = CustomProtocol::parse(&request); ImportHandler::handle(..) }
import_arm(url_scheme, request, msg) ==
  Locals(url_scheme, request, Some(msg), ImportHandler_handle(msg))

\* match request.host.as_str() { "open" => ..., "import" => ..., _ => {} }
dispatch(url_scheme, request) ==
  CASE request.val.host = <<"open">> ->
         open_arm(url_scheme, request, CustomProtocol_parse("open", request.val))
    [] request.val.host = <<"import">> ->
         import_arm(url_scheme, request, CustomProtocol_parse("import", request.val))
    [] OTHER -> Locals(url_scheme, request, None, None)

\* The body of the callback with the router's failure answered by an empty
\* "open" command.
after_parse_opens(url_scheme, request) ==
  IF ~request.ok
  THEN Locals(url_scheme, request, None, OpenHandler_handle_ok(OpenWorkspaceMsg_empty))
  ELSE dispatch(url_scheme, request)

\* The body of the callback once UrlParser::parse has returned.
after_parse(url_scheme, request) ==
  IF ~request.ok
  THEN Locals(url_scheme, request, None, router_failure(request.err))
  ELSE dispatch(url_scheme, request)

\* The body of the callback giving up on the channel once a send has failed.
callback_body_after_failure(url_scheme) ==
  IF \E k \in 1..Len(send_log) : ~send_log[k].ok
  THEN Locals(url_scheme, UrlParser_parse(url_scheme), None, None)
  ELSE after_parse(url_scheme, UrlParser_parse(url_scheme))

\* The body of the callback, run up to its one await.
callback_body(url_scheme) == after_parse(url_scheme, UrlParser_parse(url_scheme))

(* ------------------------------------------------------------------ *)
(* The channel                                                         *)
(* ------------------------------------------------------------------ *)

\* app_state.ui_messages.send(msg).await by `from` (an activation, 0 for
\* setup): the message is on the channel when the receiver exists, and the
\* send fails when it does not.
ChannelSend(from, msg) ==
  /\ ui_messages' = IF receiver_alive THEN Append(ui_messages, msg) ELSE ui_messages
  /\ send_log' = Append(send_log, [from |-> from, msg |-> msg, ok |-> receiver_alive])

(* ------------------------------------------------------------------ *)
(* CustomProtocol::setup                                               *)
(* ------------------------------------------------------------------ *)

\* The match on result without its cfg(target_os = "linux").
toast_on_every_target(result) == result = "err"

\* #[cfg(target_os = "linux")] match result { Ok(..) => {}, Err(error) => ... }
toast_on(result) == target_os = "linux" /\ result = "err"

\* let result = tauri_plugin_deep_link::register(APP_URL_SCHEME, callback)
Register(result) ==
  /\ setup_pc = "start"
  /\ register_result' = result
  /\ setup_pc' = IF toast_on(result) THEN "toast" ELSE "returned"
  /\ UNCHANGED <<pvars, target_os, receiver_alive, ui_messages, send_log, act>>

\* block_on(async { app_state.ui_messages.send(UiMessage::ShowToast(..)).await })
SendToast ==
  /\ setup_pc = "toast"
  /\ ChannelSend(0,
                 ShowToast(ShowToastMsg_new(
                   "Custom protocol handling needs to be configured",
                   "Either update-desktop-database or xdg-mime are missing. Please make sure they are available on your system",
                   "Warning")))
  /\ setup_pc' = "returned"
  /\ UNCHANGED <<pvars, target_os, register_result, receiver_alive, act>>

(* ------------------------------------------------------------------ *)
(* The callback                                                        *)
(* ------------------------------------------------------------------ *)

\* The callback called while an earlier call of it has not returned.
Callback_reentrant(i, url_scheme) ==
  /\ register_result # "none"
  /\ act[i].pc = "idle"
  /\ IF i = 1 THEN TRUE ELSE act[i - 1].pc # "idle"
  /\ act' = [act EXCEPT ![i] = callback_body(url_scheme)]
  /\ UNCHANGED <<pvars, target_os, setup_pc, register_result, receiver_alive,
                 ui_messages, send_log>>

\* The callback can be called for activation i: register has been called,
\* the activations before i were delivered, and no call is running.  The
\* callback is the one closure handed to register, called as FnMut: a call has
\* it exclusively, so a delivery attempted while block_on has not returned
\* waits for it.
CanCall(i) ==
  /\ register_result # "none"
  /\ act[i].pc = "idle"
  /\ IF i = 1 THEN TRUE ELSE act[i - 1].pc # "idle"
  /\ \A j \in Activations : act[j].pc # "send"

\* The OS calls the registered callback with a URL; the callback runs up to
\* its send, or to its end when it sends nothing.
Callback(i, url_scheme) ==
  /\ CanCall(i)
  /\ act' = [act EXCEPT ![i] = callback_body(url_scheme)]
  /\ UNCHANGED <<pvars, target_os, setup_pc, register_result, receiver_alive,
                 ui_messages, send_log>>

\* send_ui_message sending again after an Err of the channel.
send_ui_message_retrying(i) ==
  /\ act[i].pc = "send"
  /\ ChannelSend(i, act[i].out.value)
  /\ act' = IF receiver_alive
            THEN [act EXCEPT ![i].pc = "returned", ![i].out = None]
            ELSE act
  /\ UNCHANGED <<pvars, target_os, setup_pc, register_result, receiver_alive>>

\* send_ui_message: one send, an error is logged; block_on and the callback return.
send_ui_message(i) ==
  /\ act[i].pc = "send"
  /\ ChannelSend(i, act[i].out.value)
  /\ act' = [act EXCEPT ![i].pc = "returned", ![i].out = None]
  /\ UNCHANGED <<pvars, target_os, setup_pc, register_result, receiver_alive>>

\* The UI drops the receiving end of the channel.
DropReceiver ==
  /\ receiver_alive
  /\ receiver_alive' = FALSE
  /\ UNCHANGED <<pvars, target_os, setup_pc, register_result, ui_messages,
                 send_log, act>>

Init == PInit /\ target_os \in TargetOs /\ SInit

Next ==
  \/ \E result \in {"ok", "err"} : Register(result)
  \/ SendToast
  \/ \E i \in Activations, url_scheme \in Deliveries : Callback(i, url_scheme)
  \/ \E i \in Activations : send_ui_message(i)
  \/ DropReceiver

Spec == Init /\ [][Next]_vars

(* ------------------------------------------------------------------ *)
(* What a string says, read off its text                               *)
(* ------------------------------------------------------------------ *)

\* The text after the first "?", empty when there is none.
AfterQuestionMark(raw) == Drop(raw, FirstOf(raw, {"?"}))

\* The query component: of the text without the padding at its end and
\* without the fragment, what follows the first "?", a space written "%20".
QueryComponent(raw) ==
  LET q == AfterQuestionMark(Take(TrimEnd(raw), FirstOf(TrimEnd(raw), {"#"}) - 1))
  IN  [i \in 1..Len(q) |-> IF q[i] = " " THEN "%20" ELSE q[i]]

\* The places of query q where a pair starts.
PairStarts(q) == {i \in 1..Len(q) : (i = 1 \/ q[i - 1] = "&") /\ q[i] # "&"}

\* The pair at i has the key k.
KeyAt(q, i, k) == q[i] = k /\ (i = Len(q) \/ q[i + 1] \in {"=", "&"})

HasKey(q, k) == \E i \in PairStarts(q) : KeyAt(q, i, k)

HasRequiredKeys(q) == \A k \in RequiredKeys : HasKey(q, k)

\* The keys of q that are one word.
WordKeys(q) == {q[i] : i \in {j \in PairStarts(q) : KeyAt(q, j, q[j])}}

\* The value written for key k, its escapes decoded.
ValueOf(q, k) ==
  LET i    == CHOOSE j \in PairStarts(q) : KeyAt(q, j, k)
      rest == Drop(q, i + 1)
      v    == Take(rest, FirstOf(rest, {"&"}) - 1)
  IN  [j \in 1..Len(v) |-> IF v[j] = "%20" THEN " " ELSE v[j]]

\* Every escape of q is UTF-8 text and no key is written twice.
WellFormed(q) ==
  /\ "%FF" \notin Tokens(q)
  /\ \A i, j \in PairStarts(q) : i # j => ~KeyAt(q, j, q[i])

\* What Url::parse makes of the raw string given to UrlParser::parse.
RawUrl == Url_parse(p_raw)

RawHostAllowed ==
  /\ RawUrl.ok
  /\ RawUrl.val.host.present
  /\ RawUrl.val.host.value \in {<<"open">>, <<"import">>}

(* ------------------------------------------------------------------ *)
(* C1                                                                  *)
(* ------------------------------------------------------------------ *)

\* C1, as stated: for every raw URL that parses and whose host is "open" or
\* "import", UrlParser::parse returns Ok(Request), its host that host and its
\* query exactly the text after "?", empty when there is no "?".
C1_AsStated ==
  (p_pc # "start" /\ RawHostAllowed) =>
    /\ p_request.ok
    /\ p_request.val.host = RawUrl.val.host.value
    /\ p_request.val.query = AfterQuestionMark(p_raw)

\* C1, amended: for every raw URL that parses and whose host is "open" or
\* "import", UrlParser::parse returns Ok(Request), its host that host and its
\* query the URL's query component: what follows the first "?" up to the
\* fragment, as the URL parser writes it (padding dropped, a space as "%20"),
\* empty when there is no "?" before the fragment.
C1_QueryComponent ==
  (p_pc # "start" /\ RawHostAllowed) =>
    /\ p_request.ok
    /\ p_request.val.host = RawUrl.val.host.value
    /\ p_request.val.query = QueryComponent(p_raw)

\* An accepted URL with a query, a space in it and a fragment after it.
C1_Witness ==
  /\ p_pc = "routed"
  /\ p_request.val.query = <<"a", "%20", "b">>
  /\ "#" \in Tokens(p_raw)

(* ------------------------------------------------------------------ *)
(* C2                                                                  *)
(* ------------------------------------------------------------------ *)

\* C2: for every raw string that does not parse as a URL, UrlParser::parse
\* returns Err(InvalidQuery(s)) with s the whole raw string, unchanged; never
\* Ok, never UnsupportedHost.
C2_InvalidUrl ==
  (p_pc # "start" /\ ~RawUrl.ok) =>
    /\ ~p_request.ok
    /\ p_request.err.kind = "InvalidQuery"
    /\ p_request.err.arg = p_raw

\* A string with no scheme and padding at its end was refused.
C2_Witness ==
  /\ p_pc = "failed"
  /\ p_request.err.kind = "InvalidQuery"
  /\ Len(p_raw) > 2
  /\ p_raw[2] # ":"
  /\ p_raw[Len(p_raw)] = " "

(* ------------------------------------------------------------------ *)
(* C3                                                                  *)
(* ------------------------------------------------------------------ *)

\* C3: for every URL that parses and whose host is not exactly "open" or
\* "import", UrlParser::parse returns Err(UnsupportedHost(name)), name the
\* URL's host, or "no host" when it has none; and UnsupportedHost comes of
\* nothing else.
C3_UnsupportedHost ==
  p_pc # "start" =>
    /\ (RawUrl.ok /\ ~RawUrl.val.host.present) =>
         (~p_request.ok /\ p_request.err = UnsupportedHost(NoHost))
    /\ (RawUrl.ok /\ RawUrl.val.host.present /\ ~RawHostAllowed) =>
         (~p_request.ok /\ p_request.err = UnsupportedHost(RawUrl.val.host.value))
    /\ (~p_request.ok /\ p_request.err.kind = "UnsupportedHost") =>
         (RawUrl.ok /\ ~RawHostAllowed)

\* devpod://OPEN was refused by name.
C3_Witness ==
  /\ p_pc = "failed"
  /\ p_request.err = UnsupportedHost(<<"OPEN">>)

(* ------------------------------------------------------------------ *)
(* C4                                                                  *)
(* ------------------------------------------------------------------ *)

SendsFrom(i) == SelectSeq(send_log, LAMBDA e : e.from = i)

\* The request each URL that can be delivered routes to.
Requests == [url_scheme \in Deliveries |-> UrlParser_parse(url_scheme)]

\* The command each URL that routes decodes to.
Commands ==
  [url_scheme \in {u \in Deliveries : Requests[u].ok} |->
     IF Requests[url_scheme].val.host = <<"open">>
     THEN CustomProtocol_parse("open", Requests[url_scheme].val)
     ELSE CustomProtocol_parse("import", Requests[url_scheme].val)]

\* The request the URL of activation i routes to.
RequestOf(i) == Requests[act[i].url]

\* The command of activation i, for a URL that routes.
CommandOf(i) == Commands[act[i].url]

\* The UiMessage variant of the command of activation i.
VariantOf(i) ==
  IF RequestOf(i).val.host = <<"open">> THEN "OpenWorkspace" ELSE "ImportWorkspace"

Succeeds(i) == RequestOf(i).ok /\ CommandOf(i).ok

\* The ParseError of an activation that does not succeed.
ErrorOf(i) == IF ~RequestOf(i).ok THEN RequestOf(i).err ELSE CommandOf(i).err

IsCommand(m) == m.type \in {"OpenWorkspace", "ImportWorkspace"}

(* ------------------------------------------------------------------ *)
(* C6                                                                  *)
(* ------------------------------------------------------------------ *)

\* C6: a Request with host "open" and the empty query decodes to
\* Ok(OpenWorkspaceMsg) with all four fields absent, never an error, and the
\* activation devpod://open sends OpenWorkspace of that message, not
\* CommandFailed.
C6_EmptyOpen ==
  \A i \in Activations :
    (/\ act[i].pc # "idle"
     /\ act[i].request.ok
     /\ act[i].request.val.host = <<"open">>
     /\ act[i].request.val.query = <<>>) =>
      /\ act[i].msg.present
      /\ act[i].msg.value.ok
      /\ ~act[i].msg.value.val.workspace_id.present
      /\ ~act[i].msg.value.val.provider_id.present
      /\ ~act[i].msg.value.val.ide.present
      /\ ~act[i].msg.value.val.source.present
      /\ act[i].pc = "send" => act[i].out = Some(OpenWorkspace(OpenWorkspaceMsg_empty))
      /\ act[i].pc = "returned" =>
           /\ Len(SendsFrom(i)) = 1
           /\ SendsFrom(i)[1].msg.type = "OpenWorkspace"
           /\ SendsFrom(i)[1].msg.payload = OpenWorkspaceMsg_empty

\* devpod://open was delivered and its callback has returned.
C6_Witness ==
  \E i \in Activations :
    /\ act[i].url = <<"devpod", ":", "/", "/", "open">>
    /\ act[i].pc = "returned"
    /\ Len(SendsFrom(i)) = 1

(* ------------------------------------------------------------------ *)
(* C7                                                                  *)
(* ------------------------------------------------------------------ *)

\* C7: an activation whose URL routes and decodes attempts exactly one send,
\* of OpenWorkspace(cmd) for "open" and of ImportWorkspace(cmd) for "import",
\* cmd the decoded command unchanged.
C7_SuccessPath ==
  \A i \in Activations :
    (act[i].pc # "idle" /\ Succeeds(i)) =>
      /\ act[i].pc = "send" => Len(SendsFrom(i)) = 0
      /\ act[i].pc = "returned" =>
           /\ Len(SendsFrom(i)) = 1
           /\ SendsFrom(i)[1].msg.type = VariantOf(i)
           /\ SendsFrom(i)[1].msg.payload = CommandOf(i).val

\* An "import" URL with an extra pair was delivered and its command sent.
C7_Witness ==
  \E i \in Activations :
    /\ act[i].pc = "returned"
    /\ Succeeds(i)
    /\ Len(SendsFrom(i)) = 1
    /\ SendsFrom(i)[1].msg.type = "ImportWorkspace"
    /\ DOMAIN SendsFrom(i)[1].msg.payload.options = {<<"other">>}

(* ------------------------------------------------------------------ *)
(* C8                                                                  *)
(* ------------------------------------------------------------------ *)

\* C8: an activation that fails, in the router or in decoding, attempts
\* exactly one send, of CommandFailed with the ParseError of the stage that
\* failed, on every target but Windows, and no send at all on Windows.
C8_ErrorOnce ==
  \A i \in Activations :
    (act[i].pc # "idle" /\ ~Succeeds(i)) =>
      IF target_os = "windows"
      THEN act[i].pc = "returned" /\ Len(SendsFrom(i)) = 0
      ELSE /\ act[i].pc = "send" => Len(SendsFrom(i)) = 0
           /\ act[i].pc = "returned" =>
                /\ Len(SendsFrom(i)) = 1
                /\ SendsFrom(i)[1].msg.type = "CommandFailed"
                /\ SendsFrom(i)[1].msg.payload = ErrorOf(i)

\* Off Windows, a router failure and a decoding failure were each reported.
C8_Witness ==
  \E i, j \in Activations :
    /\ act[i].pc = "returned"
    /\ act[j].pc = "returned"
    /\ ~RequestOf(i).ok
    /\ RequestOf(j).ok
    /\ ~CommandOf(j).ok
    /\ Len(SendsFrom(i)) = 1
    /\ Len(SendsFrom(j)) = 1

(* ------------------------------------------------------------------ *)
(* C9                                                                  *)
(* ------------------------------------------------------------------ *)

\* C9: every OpenWorkspace or ImportWorkspace ever sent comes of an
\* activation whose URL routed and decoded, and is its command; an activation
\* that fails in the router never has CustomProtocol::parse or a handler
\* called, and one that fails in decoding never sends a command.
C9_ErrorsTerminal ==
  /\ \A k \in 1..Len(send_log) :
       IsCommand(send_log[k].msg) =>
         /\ send_log[k].from \in Activations
         /\ Succeeds(send_log[k].from)
         /\ send_log[k].msg.type = VariantOf(send_log[k].from)
         /\ send_log[k].msg.payload = CommandOf(send_log[k].from).val
  /\ \A i \in Activations :
       (act[i].pc # "idle" /\ ~Succeeds(i)) =>
         /\ ~RequestOf(i).ok => ~act[i].msg.present
         /\ act[i].out.present => ~IsCommand(act[i].out.value)

\* A command was sent, and an activation that failed in the router returned.
C9_Witness ==
  /\ \E k \in 1..Len(send_log) : IsCommand(send_log[k].msg)
  /\ \E i \in Activations : act[i].pc = "returned" /\ ~RequestOf(i).ok

(* ------------------------------------------------------------------ *)
(* C10                                                                 *)
(* ------------------------------------------------------------------ *)

\* The sends of a ShowToast.
Toasts == SelectSeq(send_log, LAMBDA e : e.msg.type = "ShowToast")

\* C10: when registering the scheme fails, setup attempts exactly one send of
\* ShowToast on Linux and none on another target; when it succeeds there is
\* never a ShowToast; and setup returns in every case, also when the send of
\* the toast fails.
C10_Registration ==
  /\ SendsFrom(0) = Toasts
  /\ Len(Toasts) <= 1
  /\ Len(Toasts) = 1 =>
       /\ Toasts[1].from = 0
       /\ Toasts[1].msg.payload.status = "Warning"
       /\ target_os = "linux"
       /\ register_result = "err"
       /\ setup_pc = "returned"
  /\ setup_pc = "returned" =>
       Len(Toasts) = IF target_os = "linux" /\ register_result = "err" THEN 1 ELSE 0
  /\ setup_pc = "start" => \A result \in {"ok", "err"} : ENABLED Register(result)
  /\ setup_pc = "toast" => ENABLED SendToast

\* On Linux registration failed, the send of the toast failed, setup returned.
C10_Witness ==
  /\ target_os = "linux"
  /\ register_result = "err"
  /\ setup_pc = "returned"
  /\ Len(Toasts) = 1
  /\ ~Toasts[1].ok

(* ------------------------------------------------------------------ *)
(* C11                                                                 *)
(* ------------------------------------------------------------------ *)

\* The activation's failure is one the target sends nothing for.
Suppressed(i) == target_os = "windows" /\ ~Succeeds(i)

\* C11: the callback returns only after the send of its activation was
\* attempted (accepted or refused by the channel) or suppressed: an
\* activation inside block_on has its send ahead of it and none behind it,
\* and one whose callback has returned has nothing left to send.
C11_RunsToCompletion ==
  \A i \in Activations :
    /\ act[i].pc = "send" => act[i].out.present /\ Len(SendsFrom(i)) = 0
    /\ act[i].pc = "returned" =>
         /\ ~act[i].out.present
         /\ Len(SendsFrom(i)) = IF Suppressed(i) THEN 0 ELSE 1

\* One callback returned after a send the channel accepted, one after a
\* send it refused.
C11_Witness ==
  \E i, j \in Activations :
    /\ act[i].pc = "returned"
    /\ act[j].pc = "returned"
    /\ Len(SendsFrom(i)) = 1
    /\ Len(SendsFrom(j)) = 1
    /\ SendsFrom(i)[1].ok
    /\ ~SendsFrom(j)[1].ok

(* ------------------------------------------------------------------ *)
(* C12                                                                 *)
(* ------------------------------------------------------------------ *)

\* The activations whose callback has been called and has not returned.
InFlight == {i \in Activations : act[i].pc = "send"}

\* The sends the channel accepted, in order.
Accepted == SelectSeq(send_log, LAMBDA e : e.ok)

SendFailed(i) == Len(SendsFrom(i)) >= 1 /\ ~SendsFrom(i)[1].ok

\* C13: a send the channel refuses is attempted once and not again, and the
\* callback returns as after an accepted send: the send of an activation in
\* flight can always be made, also with the receiver gone; after a refused
\* send the activation has returned with one attempt in the log and nothing
\* left to send, the callback can be called for the next activation, and a
\* later activation that has returned has made its own attempt.
C13_SendFailure ==
  /\ \A i \in Activations : act[i].pc = "send" => ENABLED send_ui_message(i)
  /\ \A i \in Activations :
       SendFailed(i) =>
         /\ Len(SendsFrom(i)) = 1
         /\ act[i].pc = "returned"
         /\ ~act[i].out.present
         /\ \A j \in Activations :
              /\ (j = i + 1 /\ act[j].pc = "idle") => CanCall(j)
              /\ (j > i /\ act[j].pc = "returned") =>
                   Len(SendsFrom(j)) = IF Suppressed(j) THEN 0 ELSE 1

\* The first activation's send was refused and its callback returned; the
\* second activation was delivered and has made its attempt.
C13_Witness ==
  /\ MaxActivations >= 2
  /\ SendFailed(1)
  /\ act[1].pc = "returned"
  /\ act[2].pc = "returned"
  /\ Len(SendsFrom(2)) = 1

(* ------------------------------------------------------------------ *)
(* C14                                                                 *)
(* ------------------------------------------------------------------ *)

\* The field of OpenWorkspaceMsg read from wire key k.
FieldOf(msg, k) ==
  CASE k = "workspace" -> msg.workspace_id
    [] k = "provider"  -> msg.provider_id
    [] k = "ide"       -> msg.ide
    [] k = "source"    -> msg.source

\* C14: for every well-formed query the open decoder returns Ok, and each of
\* workspace_id, provider_id, ide, source is present with the value of its
\* wire key exactly when that key occurs in the query; no other key changes
\* a field or fails the decoding.
C14_AsStated ==
  (/\ p_pc = "decoded"
   /\ p_type = "open"
   /\ WellFormed(p_request.val.query)) =>
    /\ p_msg.ok
    /\ \A k \in OpenKeys :
         FieldOf(p_msg.val, k) =
           IF HasKey(p_request.val.query, k)
           THEN Some(ValueOf(p_request.val.query, k))
           ELSE None

(* ------------------------------------------------------------------ *)
(* C15                                                                 *)
(* ------------------------------------------------------------------ *)

\* C15: in the open decoder a recognised key written with an empty value
\* ("workspace=") decodes to a present field holding the empty string.
C15_AsStated ==
  (/\ p_pc = "decoded"
   /\ p_type = "open"
   /\ WellFormed(p_request.val.query)) =>
    \A k \in OpenKeys :
      (HasKey(p_request.val.query, k) /\ ValueOf(p_request.val.query, k) = <<>>) =>
        /\ p_msg.ok
        /\ FieldOf(p_msg.val, k).present
        /\ FieldOf(p_msg.val, k).value = <<>>

(* ------------------------------------------------------------------ *)
(* C16                                                                 *)
(* ------------------------------------------------------------------ *)

\* The messages activation i has sent, in order.
Msgs(i) == [k \in 1..Len(SendsFrom(i)) |-> SendsFrom(i)[k].msg]

\* What an activation sends, by its URL and the target alone.
OutcomeOf(url_scheme, os) ==
  IF ~Requests[url_scheme].ok
  THEN IF os = "windows" THEN <<>> ELSE <<CommandFailed(Requests[url_scheme].err)>>
  ELSE IF ~Commands[url_scheme].ok
  THEN IF os = "windows" THEN <<>> ELSE <<CommandFailed(Commands[url_scheme].err)>>
  ELSE IF Requests[url_scheme].val.host = <<"open">>
  THEN <<OpenWorkspace(Commands[url_scheme].val)>>
  ELSE <<ImportWorkspace(Commands[url_scheme].val)>>

\* C16: what an activation sends is a function of its URL and the target
\* only: whatever was delivered before it and whether earlier sends were
\* accepted, a returned activation has sent OutcomeOf its URL, an activation
\* in flight is about to, and two activations of the same URL have sent the
\* same.
C16_Stateless ==
  /\ \A i \in Activations :
       /\ act[i].pc = "send" =>
            /\ act[i].out.present
            /\ <<act[i].out.value>> = OutcomeOf(act[i].url, target_os)
       /\ act[i].pc = "returned" => Msgs(i) = OutcomeOf(act[i].url, target_os)
  /\ \A i, j \in Activations :
       (act[i].pc = "returned" /\ act[j].pc = "returned" /\ act[i].url = act[j].url)
         => Msgs(i) = Msgs(j)

\* The same URL was delivered twice, the receiver dropped in between: the
\* first send was accepted, the second refused.
C16_Witness ==
  \E i, j \in Activations :
    /\ i < j
    /\ act[i].pc = "returned"
    /\ act[j].pc = "returned"
    /\ act[i].url = act[j].url
    /\ Len(SendsFrom(i)) = 1
    /\ Len(SendsFrom(j)) = 1
    /\ SendsFrom(i)[1].ok
    /\ ~SendsFrom(j)[1].ok

(* ------------------------------------------------------------------ *)
(* C17                                                                 *)
(* ------------------------------------------------------------------ *)

\* The host of every Request UrlParser::parse returns, over the raw URLs.
RoutedHosts ==
  {UrlParser_parse(url_scheme).val.host :
     url_scheme \in {u \in RawUrls : UrlParser_parse(u).ok}}

\* The variants a callback sends.
PipelineTypes == {"OpenWorkspace", "ImportWorkspace", "CommandFailed"}

\* C17: every Request UrlParser::parse returns has host "open" or "import",
\* so the `_ => {}` arm of the dispatch is never taken (CustomProtocol::parse
\* is called for every request), and on a target other than Windows every
\* activation makes exactly one send, of OpenWorkspace, ImportWorkspace or
\* CommandFailed, never none.
C17_NoSilentNoOp ==
  /\ RoutedHosts \subseteq {<<"open">>, <<"import">>}
  /\ \A i \in Activations :
       (act[i].pc # "idle" /\ act[i].request.ok) =>
         /\ act[i].request.val.host \in {<<"open">>, <<"import">>}
         /\ act[i].msg.present
  /\ target_os # "windows" =>
       \A i \in Activations :
         /\ act[i].pc = "send" =>
              act[i].out.present /\ act[i].out.value.type \in PipelineTypes
         /\ act[i].pc = "returned" =>
              /\ Len(SendsFrom(i)) = 1
              /\ SendsFrom(i)[1].msg.type \in PipelineTypes

\* Off Windows devpod://something and a string that is no URL were
\* delivered, and each was answered with CommandFailed.
C17_Witness ==
  /\ target_os # "windows"
  /\ \E i, j \in Activations :
       /\ act[i].pc = "returned"
       /\ act[j].pc = "returned"
       /\ act[i].url = <<"devpod", ":", "/", "/", "something">>
       /\ act[j].url = <<"invalid-scheme">>
       /\ SendsFrom(i)[1].msg.type = "CommandFailed"
       /\ SendsFrom(j)[1].msg.type = "CommandFailed"

(* ------------------------------------------------------------------ *)
(* C18                                                                 *)
(* ------------------------------------------------------------------ *)

\* C18: the error of UrlParser::parse is InvalidQuery of the whole raw URL
\* (the string does not parse) or UnsupportedHost of the URL's host or of
\* "no host"; the error of CustomProtocol::parse is InvalidQuery of the
\* request's query alone, never of the raw URL; and devpod://import routes
\* with the empty query and fails to decode with InvalidQuery("").
C18_ErrorPayload ==
  /\ p_pc = "failed" =>
       \/ /\ ~RawUrl.ok
          /\ p_request.err.kind = "InvalidQuery"
          /\ p_request.err.arg = p_raw
       \/ /\ RawUrl.ok
          /\ p_request.err.kind = "UnsupportedHost"
          /\ p_request.err.arg =
               IF RawUrl.val.host.present THEN RawUrl.val.host.value ELSE NoHost
  /\ (p_pc = "decoded" /\ ~p_msg.ok) =>
       /\ p_msg.err.kind = "InvalidQuery"
       /\ p_msg.err.arg = p_request.val.query
       /\ p_msg.err.arg # p_raw
       /\ Len(p_msg.err.arg) < Len(p_raw)
  /\ (p_raw = <<"devpod", ":", "/", "/", "import">> /\ p_pc # "start") =>
       /\ p_request.ok
       /\ p_request.val.host = <<"import">>
       /\ p_request.val.query = <<>>
       /\ (p_pc = "decoded" /\ p_type = "import") =>
            /\ ~p_msg.ok
            /\ p_msg.err.kind = "InvalidQuery"
            /\ p_msg.err.arg = <<>>

\* devpod://import was routed and failed to decode as an import.
C18_Witness ==
  /\ p_raw = <<"devpod", ":", "/", "/", "import">>
  /\ p_pc = "decoded"
  /\ p_type = "import"
  /\ ~p_msg.ok
  /\ p_msg.err.arg = <<>>

====
